---------------------------- MODULE Spec2Model ----------------------------
(***************************************************************************)
(* Model of image.go of the sane package: the frame assembler (loadImage), *)
(* the three acquisition strategies (ReadImage, ReadAvailableImages,       *)
(* ContinuousRead) and the pixel decoder (ColorModel, At).                 *)
(*                                                                         *)
(* The connection (ReadFrame, Cancel) and the page handler are external:   *)
(* each ReadFrame call and each handler call is one step whose outcome is  *)
(* chosen nondeterministically.  An action runs the code from one external *)
(* call up to the next one, so a return (with its deferred Cancel) is part *)
(* of the action that decides it.                                          *)
(***************************************************************************)
EXTENDS Integers, Sequences, FiniteSets, TLC

\* ------------------------------------------------------------------ bounds
\* Number of frames the device delivers before its ReadFrame only fails.
MaxReads == 3
\* Largest frame width / height of the images handed to the pixel decoder.
MaxW == 2
MaxH == 1
\* Number of pages in a feeder's tray.
MaxPages == 2
\* Number of further calls made on a connection after a cancelled one.
MaxRecalls == 1

\* --------------------------------------------------------------- constants
FrameGray  == "Gray"
FrameRgb   == "Rgb"
FrameRed   == "Red"
FrameGreen == "Green"
FrameBlue  == "Blue"
KnownFormats   == {FrameGray, FrameRgb, FrameRed, FrameGreen, FrameBlue}
\* format values outside the five recognized ones
UnknownFormats == {"Format5", "Format6"}
Formats        == KnownFormats \cup UnknownFormats

\* the nil error
NoErr == [kind |-> "nil"]
ErrUnsupported == [kind |-> "Unsupported"]
ErrCancelled   == [kind |-> "Cancelled"]
ErrBusy        == [kind |-> "Busy"]
ErrInvalid     == [kind |-> "Invalid"]
ErrJammed      == [kind |-> "Jammed"]
ErrEmpty       == [kind |-> "Empty"]
ErrCoverOpen   == [kind |-> "CoverOpen"]
ErrIo          == [kind |-> "Io"]
ErrNoMem       == [kind |-> "NoMem"]
ErrDenied      == [kind |-> "Denied"]
\* the error values ReadFrame can return
SaneErrors == {ErrUnsupported, ErrCancelled, ErrBusy, ErrInvalid, ErrJammed,
               ErrEmpty, ErrCoverOpen, ErrIo, ErrNoMem, ErrDenied}
\* an error of the caller's page handler; a handler may also return ErrEmpty
ErrHandler == [kind |-> "Handler"]
HandlerErrors == {ErrHandler, ErrEmpty}

\* fmt.Errorf("unknown frame type %d", f.Format)
UnknownFrameType(format) == [kind |-> "unknown frame type", format |-> format]

\* ------------------------------------------------------------------ frames
\* the nil *Frame and the nil *Image
NilFrame == [nil |-> "Frame"]
NilImage == [nil |-> "Image"]

\* Number of channels of a frame: three when interleaved, else one.
Channels(format) == IF format = FrameRgb THEN 3 ELSE 1

\* Sample coordinates (x, y, channel) of a frame of the given geometry.
Coords(w, h, format) == (0..(w - 1)) \X (0..(h - 1)) \X (0..(Channels(format) - 1))

\* The n-th frame a device delivers: one 8-bit pixel whose samples are n.
DeviceFrame(format, last, n) ==
    [Format |-> format, IsLast |-> last, Depth |-> 8, Width |-> 1, Height |-> 1,
     Data |-> [c \in Coords(1, 1, format) |-> n]]

\* Image{}: all three slots nil
ZeroImage == [fs |-> [i \in 0..2 |-> NilFrame]]

VARIABLES
    op,      \* the strategy that was called ("none" before the call)
    pc,      \* position of the call: "idle", a call site of loadImage
             \* ("L115", "L127", "L154", "L162") blocked in ReadFrame,
             \* "L159" about to call the handler, or "done"
    lm,      \* loadImage's local m (the Image under assembly)
    m,       \* the strategy's local m (last assembled image)
    err,     \* the strategy's local err (last loadImage error)
    images,  \* ReadAvailableImages' local images
    ret,     \* the values the call returned
    events,  \* history of the external calls made: ReadFrame, process, Cancel
    pimg,    \* the Image a caller holds and decodes
    pres,    \* the caller's last decoder call and its result
    tray,      \* the ReadFrame outcomes a feeder holds for the connection
    pos,       \* how many of them the connection has delivered
    cancelled, \* another execution context called Cancel on the blocked read
    results    \* what the earlier calls on this connection returned

acq  == <<op, pc, lm, m, err, images, ret, events>>
pix  == <<pimg, pres>>
conn == <<tray, pos, cancelled>>
vars == <<op, pc, lm, m, err, images, ret, events, pimg, pres,
          tray, pos, cancelled, results>>

NoRet == [none |-> TRUE]

\* ----------------------------------------------------------------- history
EvReadFrame(f, e) == [e |-> "ReadFrame", f |-> f, err |-> e]
EvProcess(img, e) == [e |-> "process", m |-> img, err |-> e]
EvCancel          == [e |-> "Cancel"]

IsRead(ev)    == ev.e = "ReadFrame"
IsProcess(ev) == ev.e = "process"
IsCancel(ev)  == ev.e = "Cancel"

NumReads   == Len(SelectSeq(events, IsRead))
NumProcess == Len(SelectSeq(events, IsProcess))
NumCancel  == Len(SelectSeq(events, IsCancel))

\* --------------------------------------------------------------- loadImage
\* loadImageStep with the default case of the format switch missing: a frame
\* of an unrecognized format is dropped and the loop goes on.
loadImageStep_NoDefault(img, f, e) ==
    IF e # NoErr
    THEN [returns |-> TRUE, m |-> NilImage, err |-> e]
    ELSE LET slot == IF f.Format \in {FrameGray, FrameRgb, FrameRed} THEN 0
                     ELSE IF f.Format = FrameGreen THEN 1
                     ELSE IF f.Format = FrameBlue THEN 2
                     ELSE -1
             img2 == IF slot = -1 THEN img ELSE [fs |-> [img.fs EXCEPT ![slot] = f]]
         IN IF f.IsLast
            THEN [returns |-> TRUE, m |-> img2, err |-> NoErr]
            ELSE [returns |-> FALSE, m |-> img2, err |-> NoErr]

\* loadImageStep returning the image under assembly along with a ReadFrame
\* error.
loadImageStep_PartialOnError(img, f, e) ==
    IF e # NoErr
    THEN [returns |-> TRUE, m |-> IF img = ZeroImage THEN NilImage ELSE img, err |-> e]
    ELSE LET slot == IF f.Format \in {FrameGray, FrameRgb, FrameRed} THEN 0
                     ELSE IF f.Format = FrameGreen THEN 1
                     ELSE IF f.Format = FrameBlue THEN 2
                     ELSE -1
         IN IF slot = -1
            THEN [returns |-> TRUE, m |-> NilImage, err |-> UnknownFrameType(f.Format)]
            ELSE LET img2 == [fs |-> [img.fs EXCEPT ![slot] = f]]
                 IN IF f.IsLast
                    THEN [returns |-> TRUE, m |-> img2, err |-> NoErr]
                    ELSE [returns |-> FALSE, m |-> img2, err |-> NoErr]

\* loadImageStep filling the slots in arrival order instead of by format.
loadImageStep_ArrivalOrder(img, f, e) ==
    IF e # NoErr
    THEN [returns |-> TRUE, m |-> NilImage, err |-> e]
    ELSE LET slot == IF f.Format \in {FrameGray, FrameRgb} THEN 0
                     ELSE IF f.Format \in {FrameRed, FrameGreen, FrameBlue}
                     THEN Cardinality({i \in 0..2 : img.fs[i] # NilFrame}) % 3
                     ELSE -1
         IN IF slot = -1
            THEN [returns |-> TRUE, m |-> NilImage, err |-> UnknownFrameType(f.Format)]
            ELSE LET img2 == [fs |-> [img.fs EXCEPT ![slot] = f]]
                 IN IF f.IsLast
                    THEN [returns |-> TRUE, m |-> img2, err |-> NoErr]
                    ELSE [returns |-> FALSE, m |-> img2, err |-> NoErr]

\* loadImageStep without the IsLast test: the loop ends only on an error.
loadImageStep_IgnoreLast(img, f, e) ==
    IF e # NoErr
    THEN [returns |-> TRUE, m |-> NilImage, err |-> e]
    ELSE LET slot == IF f.Format \in {FrameGray, FrameRgb, FrameRed} THEN 0
                     ELSE IF f.Format = FrameGreen THEN 1
                     ELSE IF f.Format = FrameBlue THEN 2
                     ELSE -1
         IN IF slot = -1
            THEN [returns |-> TRUE, m |-> NilImage, err |-> UnknownFrameType(f.Format)]
            ELSE [returns |-> FALSE, m |-> [fs |-> [img.fs EXCEPT ![slot] = f]],
                  err |-> NoErr]

\* One iteration of loadImage's loop on the outcome (f, e) of ReadFrame:
\* either the loop goes on with the image under assembly, or loadImage
\* returns (m, err).
loadImageStep(img, f, e) ==
    IF e # NoErr
    THEN [returns |-> TRUE, m |-> NilImage, err |-> e]
    ELSE LET slot == IF f.Format \in {FrameGray, FrameRgb, FrameRed} THEN 0
                     ELSE IF f.Format = FrameGreen THEN 1
                     ELSE IF f.Format = FrameBlue THEN 2
                     ELSE -1
         IN IF slot = -1
            THEN [returns |-> TRUE, m |-> NilImage, err |-> UnknownFrameType(f.Format)]
            ELSE LET img2 == [fs |-> [img.fs EXCEPT ![slot] = f]]
                 IN IF f.IsLast
                    THEN [returns |-> TRUE, m |-> img2, err |-> NoErr]
                    ELSE [returns |-> FALSE, m |-> img2, err |-> NoErr]

\* Return without the deferred Cancel on the error paths.
Return_CancelOnSuccessOnly(r, evs) ==
    /\ ret' = r
    /\ events' = IF r.err = NoErr THEN Append(evs, EvCancel) ELSE evs
    /\ pc' = "done"

\* A return of the called strategy: the deferred c.Cancel() runs, then the
\* caller has the returned values.
Return(r, evs) ==
    /\ ret' = r
    /\ events' = Append(evs, EvCancel)
    /\ pc' = "done"

\* ---------------------------------------------------------------- strategies
CallReadImage ==
    /\ pc = "idle"
    /\ op' = "ReadImage"
    /\ pc' = "L115"
    /\ lm' = ZeroImage
    /\ UNCHANGED <<m, err, images, ret, events>>
    /\ UNCHANGED <<pix, conn, results>>

CallReadAvailableImages ==
    /\ pc = "idle"
    /\ op' = "ReadAvailableImages"
    /\ images' = <<>>
    /\ pc' = "L127"
    /\ lm' = ZeroImage
    /\ UNCHANGED <<m, err, ret, events>>
    /\ UNCHANGED <<pix, conn, results>>

CallContinuousRead ==
    /\ pc = "idle"
    /\ op' = "ContinuousRead"
    /\ pc' = "L154"
    /\ lm' = ZeroImage
    /\ UNCHANGED <<m, err, images, ret, events>>
    /\ UNCHANGED <<pix, conn, results>>

\* ReadImage after loadImage returned (img, e): return both verbatim.
ReadImageAfterLoad(img, e, evs) ==
    /\ m' = img
    /\ err' = e
    /\ Return([m |-> img, err |-> e], evs)
    /\ UNCHANGED <<op, lm, images>>

\* ReadAvailableImagesAfterLoad without the end-of-tray rule: Empty is
\* returned like any other error.
ReadAvailableImagesAfterLoad_EmptyIsError(img, e, evs) ==
    /\ m' = img
    /\ err' = e
    /\ IF e # NoErr
       THEN /\ Return([images |-> <<>>, err |-> e], evs)
            /\ UNCHANGED <<op, lm, images>>
       ELSE /\ images' = Append(images, img)
            /\ pc' = "L127"
            /\ lm' = ZeroImage
            /\ events' = evs
            /\ UNCHANGED <<op, ret>>

\* ReadAvailableImagesAfterLoad without the len(images) > 0 test: Empty
\* always ends the loop successfully.
ReadAvailableImagesAfterLoad_EmptyAlwaysEnds(img, e, evs) ==
    /\ m' = img
    /\ err' = e
    /\ IF e # NoErr
       THEN /\ IF e = ErrEmpty
               THEN Return([images |-> images, err |-> NoErr], evs)
               ELSE Return([images |-> <<>>, err |-> e], evs)
            /\ UNCHANGED <<op, lm, images>>
       ELSE /\ images' = Append(images, img)
            /\ pc' = "L127"
            /\ lm' = ZeroImage
            /\ events' = evs
            /\ UNCHANGED <<op, ret>>

\* ReadAvailableImagesAfterLoad leaving the loop after the first image.
ReadAvailableImagesAfterLoad_BreakAfterFirst(img, e, evs) ==
    /\ m' = img
    /\ err' = e
    /\ IF e # NoErr
       THEN /\ IF e = ErrEmpty /\ Len(images) > 0
               THEN Return([images |-> images, err |-> NoErr], evs)
               ELSE Return([images |-> <<>>, err |-> e], evs)
            /\ UNCHANGED <<op, lm, images>>
       ELSE /\ images' = Append(images, img)
            /\ Return([images |-> Append(images, img), err |-> NoErr], evs)
            /\ UNCHANGED <<op, lm>>

\* ReadAvailableImagesAfterLoad taking Cancelled, like Empty, for the end of
\* the tray.
ReadAvailableImagesAfterLoad_CancelledEnds(img, e, evs) ==
    /\ m' = img
    /\ err' = e
    /\ IF e # NoErr
       THEN /\ IF e \in {ErrEmpty, ErrCancelled} /\ Len(images) > 0
               THEN Return([images |-> images, err |-> NoErr], evs)
               ELSE Return([images |-> <<>>, err |-> e], evs)
            /\ UNCHANGED <<op, lm, images>>
       ELSE /\ images' = Append(images, img)
            /\ pc' = "L127"
            /\ lm' = ZeroImage
            /\ events' = evs
            /\ UNCHANGED <<op, ret>>

\* ReadAvailableImages after loadImage returned (img, e).
ReadAvailableImagesAfterLoad(img, e, evs) ==
    /\ m' = img
    /\ err' = e
    /\ IF e # NoErr
       THEN /\ IF e = ErrEmpty /\ Len(images) > 0
               THEN Return([images |-> images, err |-> NoErr], evs)
               ELSE Return([images |-> <<>>, err |-> e], evs)
            /\ UNCHANGED <<op, lm, images>>
       ELSE /\ images' = Append(images, img)
            /\ pc' = "L127"
            /\ lm' = ZeroImage
            /\ events' = evs
            /\ UNCHANGED <<op, ret>>

\* ContinuousReadAfterLoad without the Empty test of line 164: Empty is
\* returned like any other error.
ContinuousReadAfterLoad_EmptyIsError(img, e, evs) ==
    /\ m' = img
    /\ err' = e
    /\ IF e # NoErr
       THEN /\ Return([err |-> e], evs)
            /\ UNCHANGED <<op, lm, images>>
       ELSE /\ pc' = "L159"
            /\ events' = evs
            /\ UNCHANGED <<op, lm, images, ret>>

\* ContinuousReadAfterLoad with the first fetch sharing the loop's rule:
\* Empty ends the call successfully at either call site.
ContinuousReadAfterLoad_SharedRule(img, e, evs) ==
    /\ m' = img
    /\ err' = e
    /\ IF e # NoErr
       THEN /\ IF e = ErrEmpty
               THEN Return([err |-> NoErr], evs)
               ELSE Return([err |-> e], evs)
            /\ UNCHANGED <<op, lm, images>>
       ELSE /\ pc' = "L159"
            /\ events' = evs
            /\ UNCHANGED <<op, lm, images, ret>>

\* ContinuousReadAfterLoad with the handler call outside the loop: a page
\* fetched at line 162 is not handled, the next one is fetched at once.
ContinuousReadAfterLoad_HandleFirstOnly(img, e, evs) ==
    /\ m' = img
    /\ err' = e
    /\ IF e # NoErr
       THEN /\ IF pc = "L162" /\ e = ErrEmpty
               THEN Return([err |-> NoErr], evs)
               ELSE Return([err |-> e], evs)
            /\ UNCHANGED <<op, lm, images>>
       ELSE /\ pc' = IF pc = "L162" THEN "L162" ELSE "L159"
            /\ lm' = IF pc = "L162" THEN ZeroImage ELSE lm
            /\ events' = evs
            /\ UNCHANGED <<op, images, ret>>

\* ContinuousRead after loadImage returned (img, e), at the first fetch
\* (line 154) or at a later one (line 162).
ContinuousReadAfterLoad(img, e, evs) ==
    /\ m' = img
    /\ err' = e
    /\ IF e # NoErr
       THEN /\ IF pc = "L162" /\ e = ErrEmpty
               THEN Return([err |-> NoErr], evs)
               ELSE Return([err |-> e], evs)
            /\ UNCHANGED <<op, lm, images>>
       ELSE /\ pc' = "L159"
            /\ events' = evs
            /\ UNCHANGED <<op, lm, images, ret>>

\* The blocked ReadFrame returns (f, e): loadImage's loop runs on it, and
\* when loadImage returns the strategy runs up to its next external call.
OnReadFrame(f, e) ==
    LET s   == loadImageStep(lm, f, e)
        evs == Append(events, EvReadFrame(f, e))
    IN /\ UNCHANGED <<pix, results>>
       /\ IF ~s.returns
          THEN /\ lm' = s.m
               /\ events' = evs
               /\ UNCHANGED <<op, pc, m, err, images, ret>>
          ELSE IF op = "ReadImage" THEN ReadImageAfterLoad(s.m, s.err, evs)
          ELSE IF op = "ReadAvailableImages"
          THEN ReadAvailableImagesAfterLoad(s.m, s.err, evs)
          ELSE ContinuousReadAfterLoad(s.m, s.err, evs)

AtLoad == pc \in {"L115", "L127", "L154", "L162"}

\* ReadFrame delivers a frame.
ReadFrameOk ==
    /\ AtLoad
    /\ NumReads < MaxReads
    /\ \E format \in Formats, last \in BOOLEAN :
          OnReadFrame(DeviceFrame(format, last, NumReads + 1), NoErr)
    /\ UNCHANGED conn

\* ReadFrame fails.
ReadFrameErr ==
    /\ AtLoad
    /\ \E e \in SaneErrors : OnReadFrame(NilFrame, e)
    /\ UNCHANGED conn

\* OnProcess treating an Empty from the handler like an Empty from the
\* assembler: the call ends successfully.
OnProcess_EmptyEnds(e) ==
    LET evs == Append(events, EvProcess(m, e))
    IN /\ UNCHANGED <<pix, conn, results>>
       /\ IF e # NoErr
          THEN /\ IF e = ErrEmpty
                  THEN Return([err |-> NoErr], evs)
                  ELSE Return([err |-> e], evs)
               /\ UNCHANGED <<op, lm, m, err, images>>
          ELSE /\ pc' = "L162"
               /\ lm' = ZeroImage
               /\ events' = evs
               /\ UNCHANGED <<op, m, err, images, ret>>

\* process(m) at line 159 returns e.
OnProcess(e) ==
    LET evs == Append(events, EvProcess(m, e))
    IN /\ UNCHANGED <<pix, conn, results>>
       /\ IF e # NoErr
          THEN /\ Return([err |-> e], evs)
               /\ UNCHANGED <<op, lm, m, err, images>>
          ELSE /\ pc' = "L162"
               /\ lm' = ZeroImage
               /\ events' = evs
               /\ UNCHANGED <<op, m, err, images, ret>>

ProcessOk ==
    /\ pc = "L159"
    /\ OnProcess(NoErr)

ProcessErr ==
    /\ pc = "L159"
    /\ \E e \in HandlerErrors : OnProcess(e)


\* ------------------------------------------------------------ pixel decoder
\* color.Gray, color.Gray16, color.RGBA, color.RGBA64 values
Gray(y)             == [type |-> "Gray", Y |-> y]
Gray16(y)           == [type |-> "Gray16", Y |-> y]
RGBA(r, g, b, a)    == [type |-> "RGBA", R |-> r, G |-> g, B |-> b, A |-> a]
RGBA64(r, g, b, a)  == [type |-> "RGBA64", R |-> r, G |-> g, B |-> b, A |-> a]
\* a nil pointer dereference: the call panics
Panic == [panic |-> "nil pointer dereference"]

opaque8  == 255
opaque16 == 65535

\* the conversions uint16(v) and uint8(v)
uint16(v) == v % 65536
uint8(v)  == v % 256

\* Frame.At(x, y, ch): the sample at (x, y, ch) widened to 16 bits.
FrameAt(f, x, y, ch) == f.Data[<<x, y, ch>>]

\* Frame.At(x, y, ch) finds its sample inside the frame's data; outside it
\* the slice index is out of range.
HasSample(f, x, y, ch) == <<x, y, ch>> \in DOMAIN f.Data

\* ColorModel testing for depth 8 where the code tests for "not 16".
ColorModel_Depth8(img) ==
    LET f == img.fs[0]
    IN IF f = NilFrame THEN Panic
       ELSE IF f.Depth = 8 /\ f.Format = FrameGray THEN "GrayModel"
       ELSE IF f.Depth = 16 /\ f.Format = FrameGray THEN "Gray16Model"
       ELSE IF f.Depth = 8 /\ f.Format # FrameGray THEN "RGBAModel"
       ELSE IF f.Depth = 16 /\ f.Format # FrameGray THEN "RGBA64Model"
       ELSE "RGBAModel"

\* Image.ColorModel
ColorModel(img) ==
    LET f == img.fs[0]
    IN IF f = NilFrame THEN Panic
       ELSE IF f.Depth # 16 /\ f.Format = FrameGray THEN "GrayModel"
       ELSE IF f.Depth = 16 /\ f.Format = FrameGray THEN "Gray16Model"
       ELSE IF f.Depth # 16 /\ f.Format # FrameGray THEN "RGBAModel"
       ELSE IF f.Depth = 16 /\ f.Format # FrameGray THEN "RGBA64Model"
       ELSE "RGBAModel"

\* Image.Bounds: Max.X and Max.Y of the rectangle (Min is (0, 0))
Bounds(img) ==
    LET f == img.fs[0]
    IN IF f = NilFrame THEN Panic ELSE [X |-> f.Width, Y |-> f.Height]

\* the bounds test with an off-by-one upper limit
Outside_OffByOne(f, x, y) == x < 0 \/ x > f.Width \/ y < 0 \/ y > f.Height

\* the bounds test of At against frame f
Outside(f, x, y) == x < 0 \/ x >= f.Width \/ y < 0 \/ y >= f.Height

\* At reading the green sample of a planar image from slot 2 and the blue one
\* from slot 1.
At_PlanarSwapped(img, x, y) ==
    LET f0 == img.fs[0]
        f1 == img.fs[1]
        f2 == img.fs[2]
    IN IF f0 = NilFrame THEN [c |-> Panic, reads |-> <<>>]
       ELSE IF Outside(f0, x, y)
       THEN [c |-> RGBA(0, 0, 0, 0), reads |-> <<>>]
       ELSE IF f0.Format = FrameGray
       THEN LET rd == << <<0, x, y, 0>> >>
            IN IF f0.Depth \notin {1, 8, 16} THEN [c |-> RGBA(0, 0, 0, 0), reads |-> <<>>]
               ELSE IF ~HasSample(f0, x, y, 0) THEN [c |-> Panic, reads |-> rd]
               ELSE IF f0.Depth = 1
               THEN [c |-> Gray(uint8(uint16(255 * FrameAt(f0, x, y, 0)))), reads |-> rd]
               ELSE IF f0.Depth = 8
               THEN [c |-> Gray(uint8(FrameAt(f0, x, y, 0))), reads |-> rd]
               ELSE [c |-> Gray16(FrameAt(f0, x, y, 0)), reads |-> rd]
       ELSE LET il == f0.Format = FrameRgb
                \* the three sample reads of lines 67-69 or 72-74, in order
                gf == IF il THEN f0 ELSE f2
                bf == IF il THEN f0 ELSE f1
                gc == IF il THEN 1 ELSE 0
                bc == IF il THEN 2 ELSE 0
                r1 == << <<0, x, y, 0>> >>
                r2 == Append(r1, <<IF il THEN 0 ELSE 1, x, y, gc>>)
                r3 == Append(r2, <<IF il THEN 0 ELSE 2, x, y, bc>>)
            IN IF ~HasSample(f0, x, y, 0) THEN [c |-> Panic, reads |-> r1]
               ELSE IF gf = NilFrame \/ ~HasSample(gf, x, y, gc) THEN [c |-> Panic, reads |-> r2]
               ELSE IF bf = NilFrame \/ ~HasSample(bf, x, y, bc) THEN [c |-> Panic, reads |-> r3]
               ELSE LET r == FrameAt(f0, x, y, 0)
                        g == FrameAt(gf, x, y, gc)
                        b == FrameAt(bf, x, y, bc)
                    IN IF f0.Depth = 1
                       THEN [c |-> RGBA(uint8(uint16(255 * r)), uint8(uint16(255 * g)),
                                        uint8(uint16(255 * b)), opaque8), reads |-> r3]
                       ELSE IF f0.Depth = 8
                       THEN [c |-> RGBA(uint8(r), uint8(g), uint8(b), opaque8), reads |-> r3]
                       ELSE IF f0.Depth = 16
                       THEN [c |-> RGBA64(r, g, b, opaque16), reads |-> r3]
                       ELSE [c |-> RGBA(0, 0, 0, 0), reads |-> r3]

\* At using 1-bit samples as they are, without the scaling by 0xFF.
At_NoScale(img, x, y) ==
    LET f0 == img.fs[0]
        f1 == img.fs[1]
        f2 == img.fs[2]
    IN IF f0 = NilFrame THEN [c |-> Panic, reads |-> <<>>]
       ELSE IF Outside(f0, x, y)
       THEN [c |-> RGBA(0, 0, 0, 0), reads |-> <<>>]
       ELSE IF f0.Format = FrameGray
       THEN LET rd == << <<0, x, y, 0>> >>
            IN IF f0.Depth \notin {1, 8, 16} THEN [c |-> RGBA(0, 0, 0, 0), reads |-> <<>>]
               ELSE IF ~HasSample(f0, x, y, 0) THEN [c |-> Panic, reads |-> rd]
               ELSE IF f0.Depth = 1
               THEN [c |-> Gray(uint8(FrameAt(f0, x, y, 0))), reads |-> rd]
               ELSE IF f0.Depth = 8
               THEN [c |-> Gray(uint8(FrameAt(f0, x, y, 0))), reads |-> rd]
               ELSE [c |-> Gray16(FrameAt(f0, x, y, 0)), reads |-> rd]
       ELSE LET il == f0.Format = FrameRgb
                \* the three sample reads of lines 67-69 or 72-74, in order
                gf == IF il THEN f0 ELSE f1
                bf == IF il THEN f0 ELSE f2
                gc == IF il THEN 1 ELSE 0
                bc == IF il THEN 2 ELSE 0
                r1 == << <<0, x, y, 0>> >>
                r2 == Append(r1, <<IF il THEN 0 ELSE 1, x, y, gc>>)
                r3 == Append(r2, <<IF il THEN 0 ELSE 2, x, y, bc>>)
            IN IF ~HasSample(f0, x, y, 0) THEN [c |-> Panic, reads |-> r1]
               ELSE IF gf = NilFrame \/ ~HasSample(gf, x, y, gc) THEN [c |-> Panic, reads |-> r2]
               ELSE IF bf = NilFrame \/ ~HasSample(bf, x, y, bc) THEN [c |-> Panic, reads |-> r3]
               ELSE LET r == FrameAt(f0, x, y, 0)
                        g == FrameAt(gf, x, y, gc)
                        b == FrameAt(bf, x, y, bc)
                    IN IF f0.Depth = 1
                       THEN [c |-> RGBA(uint8(r), uint8(g),
                                        uint8(b), opaque8), reads |-> r3]
                       ELSE IF f0.Depth = 8
                       THEN [c |-> RGBA(uint8(r), uint8(g), uint8(b), opaque8), reads |-> r3]
                       ELSE IF f0.Depth = 16
                       THEN [c |-> RGBA64(r, g, b, opaque16), reads |-> r3]
                       ELSE [c |-> RGBA(0, 0, 0, 0), reads |-> r3]

\* Image.At: the color of the pixel at (x, y), with the calls of Frame.At it
\* made, as <<slot, x, y, channel>> in calling order.  A call on a nil frame
\* or outside a frame's data panics.
At(img, x, y) ==
    LET f0 == img.fs[0]
        f1 == img.fs[1]
        f2 == img.fs[2]
    IN IF f0 = NilFrame THEN [c |-> Panic, reads |-> <<>>]
       ELSE IF Outside(f0, x, y)
       THEN [c |-> RGBA(0, 0, 0, 0), reads |-> <<>>]
       ELSE IF f0.Format = FrameGray
       THEN LET rd == << <<0, x, y, 0>> >>
            IN IF f0.Depth \notin {1, 8, 16} THEN [c |-> RGBA(0, 0, 0, 0), reads |-> <<>>]
               ELSE IF ~HasSample(f0, x, y, 0) THEN [c |-> Panic, reads |-> rd]
               ELSE IF f0.Depth = 1
               THEN [c |-> Gray(uint8(uint16(255 * FrameAt(f0, x, y, 0)))), reads |-> rd]
               ELSE IF f0.Depth = 8
               THEN [c |-> Gray(uint8(FrameAt(f0, x, y, 0))), reads |-> rd]
               ELSE [c |-> Gray16(FrameAt(f0, x, y, 0)), reads |-> rd]
       ELSE LET il == f0.Format = FrameRgb
                \* the three sample reads of lines 67-69 or 72-74, in order
                gf == IF il THEN f0 ELSE f1
                bf == IF il THEN f0 ELSE f2
                gc == IF il THEN 1 ELSE 0
                bc == IF il THEN 2 ELSE 0
                r1 == << <<0, x, y, 0>> >>
                r2 == Append(r1, <<IF il THEN 0 ELSE 1, x, y, gc>>)
                r3 == Append(r2, <<IF il THEN 0 ELSE 2, x, y, bc>>)
            IN IF ~HasSample(f0, x, y, 0) THEN [c |-> Panic, reads |-> r1]
               ELSE IF gf = NilFrame \/ ~HasSample(gf, x, y, gc) THEN [c |-> Panic, reads |-> r2]
               ELSE IF bf = NilFrame \/ ~HasSample(bf, x, y, bc) THEN [c |-> Panic, reads |-> r3]
               ELSE LET r == FrameAt(f0, x, y, 0)
                        g == FrameAt(gf, x, y, gc)
                        b == FrameAt(bf, x, y, bc)
                    IN IF f0.Depth = 1
                       THEN [c |-> RGBA(uint8(uint16(255 * r)), uint8(uint16(255 * g)),
                                        uint8(uint16(255 * b)), opaque8), reads |-> r3]
                       ELSE IF f0.Depth = 8
                       THEN [c |-> RGBA(uint8(r), uint8(g), uint8(b), opaque8), reads |-> r3]
                       ELSE IF f0.Depth = 16
                       THEN [c |-> RGBA64(r, g, b, opaque16), reads |-> r3]
                       ELSE [c |-> RGBA(0, 0, 0, 0), reads |-> r3]

\* ------------------------------------------------- images given to the decoder
\* Bit depths of the frames: the three of the data model and one outside it.
PixDepths == {1, 4, 8, 16}

\* Sample values a frame of the given depth carries.
Samples(depth) ==
    IF depth = 1 THEN <<0, 1>>
    ELSE IF depth = 8 THEN <<0, 85, 255>>
    ELSE IF depth = 16 THEN <<0, 255, 256, 65535>>
    ELSE <<0, 15>>

\* A frame whose samples follow pattern p over its coordinates.
PixFrame(format, depth, w, h, p) ==
    [Format |-> format, IsLast |-> format \in {FrameGray, FrameRgb, FrameBlue},
     Depth |-> depth, Width |-> w, Height |-> h,
     Data |-> [c \in Coords(w, h, format) |->
                 Samples(depth)[((c[1] + 2 * c[2] + c[3] + p) % Len(Samples(depth))) + 1]]]

\* The images loadImage can return: slot 0 holds nothing or a Gray, Rgb or
\* Red frame, slot 1 nothing or a Green frame, slot 2 nothing or a Blue
\* frame.  All frames of an image share the geometry.
PixImages ==
    { [fs |-> [i \in 0..2 |-> IF i = 0 THEN f0 ELSE IF i = 1 THEN f1 ELSE f2]] :
        <<f0, f1, f2>> \in UNION { 
            ({NilFrame} \cup {PixFrame(fm, d, w, h, p) :
                 fm \in {FrameGray, FrameRgb, FrameRed}, d \in PixDepths, p \in 0..3})
            \X ({NilFrame} \cup {PixFrame(FrameGreen, d, w, h, p) :
                 d \in PixDepths, p \in 0..1})
            \X ({NilFrame} \cup {PixFrame(FrameBlue, d, w, h, p) :
                 d \in PixDepths, p \in 1..2})
            : w \in 1..MaxW, h \in 1..MaxH } }

NoRes == [none |-> TRUE]

\* the caller asks the image for its color model
DecodeColorModel ==
    /\ pimg # NilImage
    /\ pres' = [call |-> "ColorModel", val |-> ColorModel(pimg)]
    /\ UNCHANGED <<pimg, acq, conn, results>>

\* the caller asks the image for its bounds
DecodeBounds ==
    /\ pimg # NilImage
    /\ pres' = [call |-> "Bounds", val |-> Bounds(pimg)]
    /\ UNCHANGED <<pimg, acq, conn, results>>

\* the caller asks the image for the pixel at some (x, y), inside or just
\* outside the largest geometry
DecodeAt ==
    /\ pimg # NilImage
    /\ \E x \in (-1)..MaxW, y \in (-1)..MaxH :
          pres' = [call |-> "At", x |-> x, y |-> y,
                   val |-> At(pimg, x, y).c, reads |-> At(pimg, x, y).reads]
    /\ UNCHANGED <<pimg, acq, conn, results>>

Init ==
    /\ op = "none"
    /\ pc = "idle"
    /\ lm = ZeroImage
    /\ m = NilImage
    /\ err = NoErr
    /\ images = <<>>
    /\ ret = NoRet
    /\ events = <<>>
    /\ pimg = NilImage
    /\ pres = NoRes
    /\ tray = <<>>
    /\ pos = 0
    /\ cancelled = FALSE
    /\ results = <<>>

Next ==
    \/ CallReadImage
    \/ CallReadAvailableImages
    \/ CallContinuousRead
    \/ ReadFrameOk
    \/ ReadFrameErr
    \/ ProcessOk
    \/ ProcessErr

Spec == Init /\ [][Next]_vars

\* Every ReadFrame call and every handler call returns.
Fairness ==
    /\ WF_vars(ReadFrameOk \/ ReadFrameErr)
    /\ WF_vars(ProcessOk \/ ProcessErr)

FairSpec == Spec /\ Fairness

\* The pixel decoder on its own: a caller holds an assembled image and
\* calls ColorModel, Bounds and At on it.
InitPix ==
    /\ op = "none"
    /\ pc = "idle"
    /\ lm = ZeroImage
    /\ m = NilImage
    /\ err = NoErr
    /\ images = <<>>
    /\ ret = NoRet
    /\ events = <<>>
    /\ pimg \in PixImages
    /\ pres = NoRes
    /\ tray = <<>>
    /\ pos = 0
    /\ cancelled = FALSE
    /\ results = <<>>

NextPix ==
    \/ DecodeColorModel
    \/ DecodeBounds
    \/ DecodeAt

SpecPix == InitPix /\ [][NextPix]_vars


\* ------------------------------------------- consecutive calls on a feeder
\* The frame formats of a page: one Gray frame, one Rgb frame, or the three
\* planes of a three-pass page in any of the six orders.
ThreePassOrders ==
    {<<FrameRed, FrameGreen, FrameBlue>>, <<FrameRed, FrameBlue, FrameGreen>>,
     <<FrameGreen, FrameBlue, FrameRed>>, <<FrameGreen, FrameRed, FrameBlue>>,
     <<FrameBlue, FrameRed, FrameGreen>>, <<FrameBlue, FrameGreen, FrameRed>>}
PageKinds == {<<FrameGray>>, <<FrameRgb>>} \cup ThreePassOrders

\* the frames of a sequence of pages, the last frame of each page marked
RECURSIVE PageFormats(_)
PageFormats(ks) ==
    IF ks = <<>> THEN <<>>
    ELSE [i \in 1..Len(Head(ks)) |-> [format |-> Head(ks)[i], last |-> i = Len(Head(ks))]]
         \o PageFormats(Tail(ks))

\* the tray of a feeder loaded with the pages ks: the ReadFrame outcomes it
\* gives, in order
FeederTray(ks) ==
    LET fl == PageFormats(ks)
    IN [n \in 1..Len(fl) |->
          [f |-> DeviceFrame(fl[n].format, fl[n].last, n), err |-> NoErr]]

\* the trays of up to MaxPages pages of the given kinds
FeederTrays(kinds) ==
    {FeederTray(ks) : ks \in UNION {[1..n -> kinds] : n \in 0..MaxPages}}

\* what the caller keeps of a call that returned
CallResult ==
    [op |-> op, ret |-> ret, pos |-> pos, reads |-> NumReads,
     collected |-> Len(images),
     handled |-> [i \in 1..NumProcess |-> SelectSeq(events, IsProcess)[i].m]]

\* The caller goes on to its next call on the same connection.
NextCall ==
    /\ pc = "done"
    /\ Len(results) < MaxPages
    /\ results' = Append(results, CallResult)
    /\ pc' = "idle"
    /\ op' = "none"
    /\ lm' = ZeroImage
    /\ m' = NilImage
    /\ err' = NoErr
    /\ images' = <<>>
    /\ ret' = NoRet
    /\ events' = <<>>
    /\ UNCHANGED <<pix, conn>>

\* ReadFrame delivers the next outcome of the tray.
TrayReadFrame ==
    /\ AtLoad
    /\ ~cancelled
    /\ pos < Len(tray)
    /\ OnReadFrame(tray[pos + 1].f, tray[pos + 1].err)
    /\ pos' = pos + 1
    /\ UNCHANGED <<tray, cancelled>>

\* ReadFrame on an exhausted feeder fails with Empty.
FeederEmpty ==
    /\ AtLoad
    /\ ~cancelled
    /\ pos >= Len(tray)
    /\ OnReadFrame(NilFrame, ErrEmpty)
    /\ UNCHANGED conn

\* A feeder of up to MaxPages pages, read by consecutive ReadImage calls.
InitFeeder ==
    /\ op = "none"
    /\ pc = "idle"
    /\ lm = ZeroImage
    /\ m = NilImage
    /\ err = NoErr
    /\ images = <<>>
    /\ ret = NoRet
    /\ events = <<>>
    /\ pimg = NilImage
    /\ pres = NoRes
    /\ tray \in FeederTrays(PageKinds)
    /\ pos = 0
    /\ cancelled = FALSE
    /\ results = <<>>

NextFeeder ==
    \/ CallReadImage
    \/ TrayReadFrame
    \/ FeederEmpty
    \/ NextCall

SpecFeeder == InitFeeder /\ [][NextFeeder]_vars

\* --------------------------------- two strategies on the same frame stream
\* The stream the connection delivered to the call that returned is put back:
\* the next call reads the same ReadFrame outcomes again.
Rewind ==
    /\ pc = "done"
    /\ results = <<>>
    /\ results' = <<CallResult>>
    /\ tray' = [i \in 1..NumReads |->
                  [f |-> SelectSeq(events, IsRead)[i].f,
                   err |-> SelectSeq(events, IsRead)[i].err]]
    /\ pos' = 0
    /\ pc' = "idle"
    /\ op' = "none"
    /\ lm' = ZeroImage
    /\ m' = NilImage
    /\ err' = NoErr
    /\ images' = <<>>
    /\ ret' = NoRet
    /\ events' = <<>>
    /\ UNCHANGED <<pix, cancelled>>

\* ReadAvailableImages is called on a fresh stream.
FirstReadAvailableImages ==
    /\ results = <<>>
    /\ CallReadAvailableImages

\* ContinuousRead is called on the stream ReadAvailableImages was given.
ThenContinuousRead ==
    /\ Len(results) = 1
    /\ CallContinuousRead

\* ReadFrame outcomes beyond the recorded stream are the device's choice.
FreshReadFrameOk ==
    /\ pos >= Len(tray)
    /\ ReadFrameOk

FreshReadFrameErr ==
    /\ pos >= Len(tray)
    /\ ReadFrameErr

NextBoth ==
    \/ FirstReadAvailableImages
    \/ FreshReadFrameOk
    \/ FreshReadFrameErr
    \/ Rewind
    \/ ThenContinuousRead
    \/ TrayReadFrame
    \/ ProcessOk

\* ReadAvailableImages, then ContinuousRead with a handler that always
\* succeeds, on the same stream of ReadFrame outcomes.
SpecBoth == Init /\ [][NextBoth]_vars

\* ------------------------------------------- Cancel from another context
\* Cancel called by another execution context
EvExternalCancel == [e |-> "ExternalCancel"]

\* Another execution context calls Cancel on the connection while the call
\* is blocked in ReadFrame.
ExternalCancel ==
    /\ AtLoad
    /\ ~cancelled
    /\ cancelled' = TRUE
    /\ events' = Append(events, EvExternalCancel)
    /\ UNCHANGED <<op, pc, lm, m, err, images, ret, pix, tray, pos, results>>

\* The cancelled ReadFrame is unblocked: it fails with Cancelled.
CancelledReadFrame ==
    /\ AtLoad
    /\ cancelled
    /\ OnReadFrame(NilFrame, ErrCancelled)
    /\ cancelled' = FALSE
    /\ UNCHANGED <<tray, pos>>

\* the pages of the feeder another context cancels: a Gray page or a
\* three-pass page
CancelPageKinds == {<<FrameGray>>, <<FrameRed, FrameGreen, FrameBlue>>}

\* The caller makes a further call on the connection.
Recall ==
    /\ Len(results) < MaxRecalls
    /\ NextCall

InitCancel ==
    /\ op = "none"
    /\ pc = "idle"
    /\ lm = ZeroImage
    /\ m = NilImage
    /\ err = NoErr
    /\ images = <<>>
    /\ ret = NoRet
    /\ events = <<>>
    /\ pimg = NilImage
    /\ pres = NoRes
    /\ tray \in FeederTrays(CancelPageKinds)
    /\ pos = 0
    /\ cancelled = FALSE
    /\ results = <<>>

NextCancel ==
    \/ CallReadImage
    \/ CallReadAvailableImages
    \/ CallContinuousRead
    \/ TrayReadFrame
    \/ FeederEmpty
    \/ ExternalCancel
    \/ CancelledReadFrame
    \/ ProcessOk
    \/ ProcessErr
    \/ Recall

\* Every ReadFrame call, cancelled or not, and every handler call returns.
FairnessCancel ==
    /\ WF_vars(TrayReadFrame \/ FeederEmpty \/ CancelledReadFrame)
    /\ WF_vars(ProcessOk \/ ProcessErr)

\* Consecutive calls of the strategies on a feeder, with another execution
\* context that may call Cancel while a call is blocked in ReadFrame.
SpecCancel == InitCancel /\ [][NextCancel]_vars /\ FairnessCancel

\* ------------------------------------------------------- reading the history
\* the ReadFrame calls of the history, in order
ReadLog    == SelectSeq(events, IsRead)
\* the handler calls of the history, in order
ProcessLog == SelectSeq(events, IsProcess)

\* the error with which an assembly ended on ReadFrame outcome ev, or NoErr
LoadError(ev) ==
    IF ev.err # NoErr THEN ev.err
    ELSE IF ev.f.Format \notin KnownFormats THEN UnknownFrameType(ev.f.Format)
    ELSE NoErr

\* the error of the last ReadFrame outcome of the history
LastLoadError == IF ReadLog = <<>> THEN NoErr ELSE LoadError(ReadLog[Len(ReadLog)])

\* the outcomes before position n are all frames of recognized formats
FramesBefore(n) ==
    \A i \in 1..(n - 1) : ReadLog[i].err = NoErr /\ ReadLog[i].f.Format \in KnownFormats

\* positions (below n) of the frames that complete a page
LastsBefore(n) == {i \in 1..(n - 1) : ReadLog[i].err = NoErr /\ ReadLog[i].f.IsLast}

\* the i-th smallest element of a set of positions
RECURSIVE Nth(_, _)
Nth(S, i) ==
    LET lo == CHOOSE x \in S : \A y \in S : x <= y
    IN IF i = 1 THEN lo ELSE Nth(S \ {lo}, i - 1)

\* the frames of the k-th page among the outcomes before position n
PageFrames(n, k) ==
    LET L     == LastsBefore(n)
        first == IF k = 1 THEN 1 ELSE Nth(L, k - 1) + 1
    IN {ReadLog[i].f : i \in first..Nth(L, k)}

\* the frame that completes the k-th page
PageLast(n, k) == ReadLog[Nth(LastsBefore(n), k)].f

\* the frames an image holds
ImageFrames(img) == {img.fs[i] : i \in 0..2} \ {NilFrame}

\* img was assembled from the k-th page and from nothing else
IsPage(img, n, k) ==
    /\ img # NilImage
    /\ ImageFrames(img) \subseteq PageFrames(n, k)
    /\ PageLast(n, k) \in ImageFrames(img)

\* The history is k complete pages and nothing more.
DeliveredPages(k) ==
    /\ FramesBefore(Len(ReadLog) + 1)
    /\ Cardinality(LastsBefore(Len(ReadLog) + 1)) = k
    /\ (ReadLog # <<>> => ReadLog[Len(ReadLog)].f.IsLast)

\* The history is n >= 1 complete pages and then one ReadFrame failing Empty.
PagesThenEmpty(n) ==
    /\ n >= 1
    /\ Len(ReadLog) >= 2
    /\ ReadLog[Len(ReadLog)].err = ErrEmpty
    /\ FramesBefore(Len(ReadLog))
    /\ Cardinality(LastsBefore(Len(ReadLog))) = n
    /\ ReadLog[Len(ReadLog) - 1].f.IsLast

\* every handler call so far succeeded
HandlerAlwaysOk == \A i \in 1..Len(ProcessLog) : ProcessLog[i].err = NoErr

\* -------------------------------------------------------------------- claims

\* C1: every return of ReadImage, ReadAvailableImages and ContinuousRead has
\* called Cancel exactly once, as the last external call of the call (after
\* its last ReadFrame and its last handler call), and no Cancel is called
\* before the return.
C1_CancelOnExit ==
    /\ pc = "done" =>
          /\ NumCancel = 1
          /\ events[Len(events)] = EvCancel
    /\ pc # "done" => NumCancel = 0

\* C1 witness: ContinuousRead returned on the handler-error path, after a
\* ReadFrame and a handler call.
C1_Witness ==
    /\ pc = "done" /\ op = "ContinuousRead"
    /\ ret.err = ErrHandler
    /\ NumReads >= 1 /\ NumProcess >= 1

\* C2: ReadAvailableImages keeps reading while the feeder delivers complete
\* pages, and when N >= 1 complete pages are followed by a ReadFrame failing
\* with Empty it returns exactly the N images, image i assembled from page i,
\* and no error.
C2_DrainAll ==
    op = "ReadAvailableImages" =>
      /\ \A k \in 0..MaxReads : DeliveredPages(k) =>
            /\ pc = "L127"
            /\ Len(images) = k
            /\ \A i \in 1..k : IsPage(images[i], Len(ReadLog) + 1, i)
      /\ \A n \in 1..MaxReads : PagesThenEmpty(n) =>
            /\ pc = "done"
            /\ ret.err = NoErr
            /\ Len(ret.images) = n
            /\ \A i \in 1..n : IsPage(ret.images[i], Len(ReadLog), i)

\* C2 witness: two pages (one of them of two frames) then Empty.
C2_Witness ==
    /\ op = "ReadAvailableImages" /\ pc = "done"
    /\ PagesThenEmpty(2)
    /\ Len(ReadLog) = 4

\* C3: when the assembler fails with Empty while no image is collected, or
\* with any other error after any number of collected images,
\* ReadAvailableImages returns that error and no images.
C3_DrainAllError ==
    (/\ op = "ReadAvailableImages"
     /\ LastLoadError # NoErr
     /\ (LastLoadError # ErrEmpty \/ Len(images) = 0))
    => /\ pc = "done"
       /\ ret = [images |-> <<>>, err |-> LastLoadError]

\* C3 witness: an unknown frame format after one collected image.
C3_Witness ==
    /\ op = "ReadAvailableImages" /\ pc = "done"
    /\ Len(images) >= 1
    /\ ret.err \in {UnknownFrameType(fm) : fm \in UnknownFormats}

\* C4: with a handler that always succeeds, ContinuousRead passes every
\* complete page to the handler before fetching further, and when N >= 1
\* complete pages are followed by Empty it has invoked the handler exactly N
\* times, call i on the image of page i, and returns no error.
C4_ContinuousRead ==
    (op = "ContinuousRead" /\ HandlerAlwaysOk) =>
      /\ \A k \in 0..MaxReads : DeliveredPages(k) =>
            /\ pc \in {"L154", "L159", "L162"}
            /\ pc = "L159" => NumProcess = k - 1 /\ IsPage(m, Len(ReadLog) + 1, k)
            /\ pc # "L159" => NumProcess = k
            /\ \A i \in 1..NumProcess : IsPage(ProcessLog[i].m, Len(ReadLog) + 1, i)
      /\ \A n \in 1..MaxReads : PagesThenEmpty(n) =>
            /\ pc = "done"
            /\ ret = [err |-> NoErr]
            /\ NumProcess = n
            /\ \A i \in 1..n : IsPage(ProcessLog[i].m, Len(ReadLog), i)

\* C4 witness: two pages handled, then Empty.
C4_Witness ==
    /\ op = "ContinuousRead" /\ pc = "done"
    /\ HandlerAlwaysOk
    /\ PagesThenEmpty(2)
    /\ NumProcess = 2

\* C5: when the handler fails on page k, ContinuousRead returns exactly the
\* handler's error, the handler has been invoked exactly k times, and no
\* ReadFrame follows the failing handler call.
C5_HandlerError ==
    \A j \in 1..Len(events) :
      (op = "ContinuousRead" /\ IsProcess(events[j]) /\ events[j].err # NoErr) =>
          /\ pc = "done"
          /\ ret = [err |-> events[j].err]
          /\ j = Len(events) - 1
          /\ events[Len(events)] = EvCancel
          /\ \E k \in 1..MaxReads :
                /\ DeliveredPages(k)
                /\ NumProcess = k
                /\ IsPage(events[j].m, Len(ReadLog) + 1, k)

\* C5 witness: the handler fails on the second page, with the Empty error.
C5_Witness ==
    /\ op = "ContinuousRead" /\ pc = "done"
    /\ NumProcess = 2
    /\ ProcessLog[2].err = ErrEmpty
    /\ ProcessLog[1].err = NoErr

\* the first page fetch failed: the history holds no complete page and ends
\* in an outcome that fails the assembly
FirstFetchFailed ==
    /\ LastLoadError # NoErr
    /\ LastsBefore(Len(ReadLog)) = {}

\* C6: when the first page fetch of ContinuousRead fails with any error,
\* Empty included, ContinuousRead returns that error unchanged and the
\* handler is never invoked.
C6_FirstFetchFails ==
    (op = "ContinuousRead" /\ FirstFetchFailed) =>
        /\ pc = "done"
        /\ ret = [err |-> LastLoadError]
        /\ NumProcess = 0

\* C6 witness: the first fetch fails with Empty.
C6_Witness ==
    /\ op = "ContinuousRead" /\ pc = "done"
    /\ FirstFetchFailed
    /\ ret.err = ErrEmpty

\* C7: when ReadFrame returns a frame of an unrecognized format, the assembly
\* fails with the unknown-frame-type error carrying that format and with no
\* Image, also when frames of that page were read before, and no ReadFrame
\* follows.
C7_UnknownFormat ==
    \A i \in 1..Len(ReadLog) :
      (ReadLog[i].err = NoErr /\ ReadLog[i].f.Format \notin KnownFormats) =>
          /\ i = Len(ReadLog)
          /\ m = NilImage
          /\ err = UnknownFrameType(ReadLog[i].f.Format)
          /\ pc = "done"
          /\ ret.err = UnknownFrameType(ReadLog[i].f.Format)
          /\ op = "ReadImage" => ret.m = NilImage
          /\ op = "ReadAvailableImages" => ret.images = <<>>

\* C7 witness: ReadImage met the unknown format on the second frame of a page.
C7_Witness ==
    /\ op = "ReadImage" /\ pc = "done"
    /\ Len(ReadLog) = 2
    /\ ReadLog[2].err = NoErr
    /\ ReadLog[2].f.Format \in UnknownFormats

\* C8: when ReadFrame fails with any error, the assembler returns that same
\* error and no Image, on the first frame of a page or after earlier frames
\* of it, and ReadImage returns exactly that.
C8_ReadError ==
    (ReadLog # <<>> /\ ReadLog[Len(ReadLog)].err # NoErr) =>
        /\ ReadLog[Len(ReadLog)].err \in SaneErrors
        /\ m = NilImage
        /\ err = ReadLog[Len(ReadLog)].err
        /\ op = "ReadImage" =>
              /\ pc = "done"
              /\ ret = [m |-> NilImage, err |-> ReadLog[Len(ReadLog)].err]

\* C8 witness: ReadImage fails with Io after two frames of the page.
C8_Witness ==
    /\ op = "ReadImage" /\ pc = "done"
    /\ Len(ReadLog) = 3
    /\ ret.err = ErrIo

\* C9: the color model of an image with a primary frame is decided by that
\* frame's format and depth alone: Gray gives the 8-bit gray model unless the
\* depth is 16, which gives the 16-bit gray model; any other format gives
\* the 8-bit RGBA model unless the depth is 16, which gives the 16-bit one.
C9_ColorModel ==
    (pres # NoRes /\ pres.call = "ColorModel" /\ pimg.fs[0] # NilFrame) =>
        LET f == pimg.fs[0]
        IN /\ (f.Format = FrameGray /\ f.Depth # 16) => pres.val = "GrayModel"
           /\ (f.Format = FrameGray /\ f.Depth = 16) => pres.val = "Gray16Model"
           /\ (f.Format # FrameGray /\ f.Depth # 16) => pres.val = "RGBAModel"
           /\ (f.Format # FrameGray /\ f.Depth = 16) => pres.val = "RGBA64Model"

\* C9 witness: a 16-bit gray primary frame beside 8-bit frames in slots 1, 2.
C9_Witness ==
    /\ pres # NoRes /\ pres.call = "ColorModel"
    /\ pimg.fs[0] # NilFrame /\ pimg.fs[1] # NilFrame /\ pimg.fs[2] # NilFrame
    /\ pimg.fs[0].Format = FrameGray /\ pimg.fs[0].Depth = 16
    /\ pimg.fs[1].Depth = 8 /\ pimg.fs[2].Depth = 8

\* (x, y) lies outside the primary frame of the decoded image
OutOfBounds(x, y) ==
    \/ x < 0 \/ x >= pimg.fs[0].Width
    \/ y < 0 \/ y >= pimg.fs[0].Height

\* C10: At(x, y) outside [0, width) x [0, height) of the primary frame
\* returns the all-zero color and reads no frame sample, for every format
\* and depth.
C10_OutOfBounds ==
    (/\ pres # NoRes /\ pres.call = "At"
     /\ pimg.fs[0] # NilFrame
     /\ OutOfBounds(pres.x, pres.y))
    => /\ pres.val = RGBA(0, 0, 0, 0)
       /\ pres.reads = <<>>

\* C10 witness: x = width on a planar 16-bit image whose samples are not zero.
C10_Witness ==
    /\ pres # NoRes /\ pres.call = "At"
    /\ pimg.fs[0] # NilFrame
    /\ pimg.fs[0].Format = FrameRed /\ pimg.fs[0].Depth = 16
    /\ pres.x = pimg.fs[0].Width /\ pres.y = 0
    /\ \A c \in DOMAIN pimg.fs[0].Data : pimg.fs[0].Data[c] # 0

\* the decoded image holds one Red, one Green and one Blue frame in slots
\* 0, 1 and 2
IsPlanar(img) ==
    /\ img.fs[0] # NilFrame /\ img.fs[1] # NilFrame /\ img.fs[2] # NilFrame
    /\ img.fs[0].Format = FrameRed
    /\ img.fs[1].Format = FrameGreen
    /\ img.fs[2].Format = FrameBlue

\* the interleaved Rgb image that carries, at channel indices 0, 1, 2 of its
\* single frame, the samples of the planes of a planar image
Interleaved(img) ==
    LET f == img.fs[0]
    IN [fs |-> [i \in 0..2 |->
          IF i = 0
          THEN [Format |-> FrameRgb, IsLast |-> TRUE, Depth |-> f.Depth,
                Width |-> f.Width, Height |-> f.Height,
                Data |-> [c \in Coords(f.Width, f.Height, FrameRgb) |->
                            img.fs[c[3]].Data[<<c[1], c[2], 0>>]]]
          ELSE NilFrame]]

\* C11: for each depth in {1, 8, 16}, a planar image and the interleaved
\* image carrying the same samples give the same color at every in-bounds
\* pixel and the same color model.
C11_PlanarEqualsInterleaved ==
    (/\ pres # NoRes
     /\ IsPlanar(pimg)
     /\ pimg.fs[0].Depth \in {1, 8, 16})
    => /\ pres.call = "ColorModel" => pres.val = ColorModel(Interleaved(pimg))
       /\ (pres.call = "At" /\ ~OutOfBounds(pres.x, pres.y)) =>
             /\ pres.val = At(Interleaved(pimg), pres.x, pres.y).c
             /\ pres.val # Panic

\* C11 witness: an in-bounds pixel of an 8-bit planar image whose three
\* channels differ.
C11_Witness ==
    /\ pres # NoRes /\ pres.call = "At"
    /\ IsPlanar(pimg)
    /\ pimg.fs[0].Depth = 8
    /\ ~OutOfBounds(pres.x, pres.y)
    /\ pres.val.R # pres.val.G /\ pres.val.G # pres.val.B /\ pres.val.R # pres.val.B

\* the decoded image holds every frame its primary format needs, all of the
\* primary frame's depth
HasChannels(img) ==
    /\ img.fs[0] # NilFrame
    /\ img.fs[0].Format = FrameRed =>
          /\ img.fs[1] # NilFrame /\ img.fs[2] # NilFrame
          /\ img.fs[1].Depth = img.fs[0].Depth
          /\ img.fs[2].Depth = img.fs[0].Depth

\* the raw sample of channel ch (0 red or gray, 1 green, 2 blue) at (x, y)
RawSample(img, x, y, ch) ==
    IF img.fs[0].Format = FrameRed THEN img.fs[ch].Data[<<x, y, 0>>]
    ELSE img.fs[0].Data[<<x, y, ch>>]

\* a 1-bit sample scaled to 8 bits
Bit(s) == IF s = 0 THEN 0 ELSE 255

\* C12: At decodes the raw samples of an in-bounds pixel by the primary
\* frame's depth: Gray gives 8-bit gray 0 or 255 at depth 1, the sample as
\* 8-bit gray at depth 8 and as 16-bit gray at depth 16; color gives the
\* scaled channels with alpha 0xFF at depth 1, the channels with alpha 0xFF
\* at depth 8 and 16-bit channels with alpha 0xFFFF at depth 16; any other
\* depth gives the zero color.
C12_DecodeByDepth ==
    (/\ pres # NoRes /\ pres.call = "At"
     /\ HasChannels(pimg)
     /\ ~OutOfBounds(pres.x, pres.y))
    => LET d    == pimg.fs[0].Depth
           gray == pimg.fs[0].Format = FrameGray
           s(ch) == RawSample(pimg, pres.x, pres.y, ch)
       IN /\ (gray /\ d = 1) => pres.val = [type |-> "Gray", Y |-> Bit(s(0))]
          /\ (gray /\ d = 8) => pres.val = [type |-> "Gray", Y |-> s(0)]
          /\ (gray /\ d = 16) => pres.val = [type |-> "Gray16", Y |-> s(0)]
          /\ (~gray /\ d = 1) =>
                pres.val = [type |-> "RGBA", R |-> Bit(s(0)), G |-> Bit(s(1)),
                            B |-> Bit(s(2)), A |-> 255]
          /\ (~gray /\ d = 8) =>
                pres.val = [type |-> "RGBA", R |-> s(0), G |-> s(1), B |-> s(2), A |-> 255]
          /\ (~gray /\ d = 16) =>
                pres.val = [type |-> "RGBA64", R |-> s(0), G |-> s(1), B |-> s(2),
                            A |-> 65535]
          /\ d \notin {1, 8, 16} =>
                pres.val = [type |-> "RGBA", R |-> 0, G |-> 0, B |-> 0, A |-> 0]

\* C12 witness: a set 1-bit sample of a planar image decoded to 255.
C12_Witness ==
    /\ pres # NoRes /\ pres.call = "At"
    /\ IsPlanar(pimg) /\ HasChannels(pimg)
    /\ pimg.fs[0].Depth = 1
    /\ ~OutOfBounds(pres.x, pres.y)
    /\ pres.val.G = 255 /\ pres.val.R = 0

\* the images the assembler has returned to the running strategy
AssembledImages ==
    ({m} \ {NilImage})
    \cup {images[i] : i \in 1..Len(images)}
    \cup {ProcessLog[i].m : i \in 1..Len(ProcessLog)}

\* img holds exactly the channel set its formats imply, at one geometry and
\* depth
WellFormedImage(img) ==
    /\ img.fs[0] # NilFrame
    /\ \/ /\ img.fs[0].Format \in {FrameGray, FrameRgb}
          /\ img.fs[1] = NilFrame
          /\ img.fs[2] = NilFrame
       \/ /\ img.fs[0].Format = FrameRed
          /\ img.fs[1] # NilFrame /\ img.fs[2] # NilFrame
          /\ img.fs[1].Format = FrameGreen
          /\ img.fs[2].Format = FrameBlue
          /\ \A i \in 1..2 :
                /\ img.fs[i].Width = img.fs[0].Width
                /\ img.fs[i].Height = img.fs[0].Height
                /\ img.fs[i].Depth = img.fs[0].Depth

SlotOf(format) ==
    IF format = FrameGreen THEN 1 ELSE IF format = FrameBlue THEN 2 ELSE 0

\* every frame img holds sits in the slot of its format
SlotsByFormat(img) ==
    \A i \in 0..2 : img.fs[i] # NilFrame => SlotOf(img.fs[i].Format) = i

\* ReadImage read one three-pass page: a Red, a Green and a Blue frame in
\* some order, the last one carrying IsLast
ThreePassPage ==
    /\ op = "ReadImage"
    /\ Len(ReadLog) = 3
    /\ \A i \in 1..3 : ReadLog[i].err = NoErr
    /\ {ReadLog[i].f.Format : i \in 1..3} = {FrameRed, FrameGreen, FrameBlue}
    /\ ~ReadLog[1].f.IsLast /\ ~ReadLog[2].f.IsLast /\ ReadLog[3].f.IsLast

\* C15: whatever the arrival order of the Red, Green and Blue frames of a
\* three-pass page, the assembled Image holds the Red frame in slot 0, the
\* Green frame in slot 1 and the Blue frame in slot 2; every frame an image
\* holds is in the slot of its format, a Gray or Rgb frame in slot 0.
C15_SlotByFormat ==
    /\ SlotsByFormat(lm)
    /\ \A img \in AssembledImages : SlotsByFormat(img)
    /\ ThreePassPage =>
          /\ pc = "done"
          /\ ret.err = NoErr
          /\ \A i \in 1..3 : ret.m.fs[SlotOf(ReadLog[i].f.Format)] = ReadLog[i].f
    /\ (/\ op = "ReadImage" /\ Len(ReadLog) = 1 /\ ReadLog[1].err = NoErr
        /\ ReadLog[1].f.Format \in {FrameGray, FrameRgb} /\ ReadLog[1].f.IsLast)
       => /\ pc = "done"
          /\ ret = [m |-> [fs |-> [i \in 0..2 |-> IF i = 0 THEN ReadLog[1].f ELSE NilFrame]],
                    err |-> NoErr]

\* C15 witness: a three-pass page arriving Blue, Green, Red.
C15_Witness ==
    /\ ThreePassPage /\ pc = "done"
    /\ ReadLog[1].f.Format = FrameBlue
    /\ ReadLog[2].f.Format = FrameGreen
    /\ ReadLog[3].f.Format = FrameRed

\* the history entry ev is a ReadFrame that completed a page
CompletesPage(ev) ==
    /\ IsRead(ev)
    /\ ev.err = NoErr
    /\ ev.f.Format \in KnownFormats
    /\ ev.f.IsLast

\* C17: ContinuousRead holds one page at a time: each handler call directly
\* follows the ReadFrame that completed its page and is given that page, and
\* each ReadFrame that completes a page is directly followed by the handler
\* call on it (or the call is pending), so no ReadFrame of the next page
\* comes before it and no page is skipped or handled twice.
C17_OnePageAtATime ==
    op = "ContinuousRead" =>
      /\ \A j \in 1..Len(events) : IsProcess(events[j]) =>
            /\ j > 1
            /\ CompletesPage(events[j - 1])
            /\ events[j].m # NilImage
            /\ events[j - 1].f \in ImageFrames(events[j].m)
      /\ \A j \in 1..Len(events) : CompletesPage(events[j]) =>
            IF j = Len(events)
            THEN /\ pc = "L159"
                 /\ m # NilImage
                 /\ events[j].f \in ImageFrames(m)
            ELSE IsProcess(events[j + 1])
      /\ pc = "L159" => (events # <<>> /\ CompletesPage(events[Len(events)]))

\* C17 witness: two pages handled, the second one a page of two frames.
C17_Witness ==
    /\ op = "ContinuousRead"
    /\ NumProcess = 2
    /\ Len(ReadLog) = 3
    /\ Cardinality(ImageFrames(ProcessLog[2].m)) = 2

\* C19: when ReadAvailableImages or ContinuousRead returns successfully, the
\* Empty that ended it came from the first ReadFrame of a page (the ReadFrame
\* before it completed a page), so no frame of an unfinished page was read
\* and dropped, and the pages returned or handled are the pages read.
C19_NoDroppedFrames ==
    (/\ pc = "done"
     /\ op \in {"ReadAvailableImages", "ContinuousRead"}
     /\ ret.err = NoErr)
    => /\ Len(ReadLog) >= 2
       /\ ReadLog[Len(ReadLog)].err = ErrEmpty
       /\ CompletesPage(ReadLog[Len(ReadLog) - 1])
       /\ op = "ReadAvailableImages" =>
             Len(ret.images) = Cardinality(LastsBefore(Len(ReadLog)))
       /\ op = "ContinuousRead" =>
             NumProcess = Cardinality(LastsBefore(Len(ReadLog)))

\* the running call is blocked in ReadFrame or about to call the handler
Running == AtLoad \/ pc = "L159"

\* a ReadFrame outcome that ends a ReadImage: a frame that completes the page
\* or has an unrecognized format, or an error
EndsReadImage(ev) ==
    \/ ev.err # NoErr
    \/ ev.f.IsLast
    \/ ev.f.Format \notin KnownFormats

C20_Safety ==
    /\ pc = "done" => NumCancel = 1
    /\ op = "ReadImage" =>
          \A i \in 1..Len(ReadLog) :
             EndsReadImage(ReadLog[i]) => (i = Len(ReadLog) /\ pc = "done")
    /\ (/\ op \in {"ReadAvailableImages", "ContinuousRead"}
        /\ HandlerAlwaysOk
        /\ pc = "done")
       => LastLoadError # NoErr

\* C20: when every ReadFrame call and every handler call returns and the
\* connection ends up failing ReadFrame, every call of a strategy returns,
\* having called Cancel; ReadImage returns at the first frame that completes
\* a page or has an unknown format, while ReadAvailableImages and
\* ContinuousRead (with a succeeding handler) return only after a ReadFrame
\* failed or delivered an unknown format.
C20_Termination ==
    /\ []C20_Safety
    /\ Running ~> (pc = "done" /\ NumCancel = 1)

\* C20 witness: ReadAvailableImages returned only when the device, having
\* delivered all its frames as pages, failed the next ReadFrame.
C20_Witness ==
    /\ op = "ReadAvailableImages" /\ pc = "done"
    /\ Len(ReadLog) = MaxReads + 1
    /\ Len(images) = MaxReads

\* positions of the tray's frames that complete a page
TrayLasts == {i \in 1..Len(tray) : tray[i].err = NoErr /\ tray[i].f.IsLast}

\* the position of the last frame of the k-th page of the tray (0 for k = 0)
PageEnd(k) == IF k = 0 THEN 0 ELSE Nth(TrayLasts, k)

\* the frames of the k-th page of the tray
TrayPage(k) == {tray[i].f : i \in (PageEnd(k - 1) + 1)..PageEnd(k)}

\* the calls that have returned so far, in order
Returned == IF pc = "done" THEN Append(results, CallResult) ELSE results

\* C16: on a feeder of N pages (single-frame or three-pass) the i-th
\* consecutive ReadImage returns page i, having read the frames of that page
\* up to and including its IsLast frame and not one more, and every ReadImage
\* after the N-th returns Empty.
C16_OnePagePerCall ==
    \A i \in 1..Len(Returned) :
       LET r == Returned[i]
       IN /\ r.op = "ReadImage"
          /\ IF i <= Cardinality(TrayLasts)
             THEN /\ r.ret.err = NoErr
                  /\ r.ret.m # NilImage
                  /\ ImageFrames(r.ret.m) = TrayPage(i)
                  /\ r.pos = PageEnd(i)
                  /\ r.reads = PageEnd(i) - PageEnd(i - 1)
             ELSE /\ r.ret = [m |-> NilImage, err |-> ErrEmpty]
                  /\ r.pos = Len(tray)

\* C16 witness: a single-frame page and a three-pass page were returned by
\* two calls and the third call returned Empty.
C16_Witness ==
    /\ pc = "done"
    /\ Len(results) = 2
    /\ Len(tray) = 4
    /\ Cardinality(ImageFrames(results[1].ret.m)) = 1
    /\ Cardinality(ImageFrames(results[2].ret.m)) = 3
    /\ ret.err = ErrEmpty

\* C18: on the same stream of ReadFrame outcomes, ContinuousRead with a
\* handler that always succeeds and ReadAvailableImages end alike: after the
\* same number of ReadFrame calls, either both without error, the handler
\* having received exactly the images ReadAvailableImages returned, in the
\* same order, or both with the same error.
C18_SameOutcome ==
    (Len(results) = 1 /\ op = "ContinuousRead") =>
       LET a == results[1]
       IN /\ pc = "done" <=> pos = Len(tray)
          /\ pc = "done" =>
                /\ a.op = "ReadAvailableImages"
                /\ NumReads = a.reads
                /\ ret.err = a.ret.err
                /\ ret.err = NoErr => CallResult.handled = a.ret.images

\* C18 witness: both succeeded on a stream of two pages.
C18_Witness ==
    /\ Len(results) = 1 /\ op = "ContinuousRead" /\ pc = "done"
    /\ ret.err = NoErr
    /\ Len(results[1].ret.images) = 2
    /\ NumProcess = 2

\* C18 second case: both failed with Empty on the very first fetch.
C18_BothFailEmpty ==
    /\ Len(results) = 1 /\ op = "ContinuousRead" /\ pc = "done"
    /\ ret.err = ErrEmpty
    /\ results[1].ret.err = ErrEmpty
    /\ NumReads = 1

\* no other context called Cancel during the running call
NoExternalCancel == \A j \in 1..Len(events) : events[j] # EvExternalCancel

C13_Safety ==
    /\ \A j \in 1..Len(events) : events[j] = EvExternalCancel =>
          IF j = Len(events)
          THEN cancelled /\ AtLoad
          ELSE /\ events[j + 1] = EvReadFrame(NilFrame, ErrCancelled)
               /\ Len(events) = j + 2
               /\ events[j + 2] = EvCancel
               /\ ~cancelled
               /\ pc = "done"
               /\ ret.err = ErrCancelled
               /\ op = "ReadImage" => ret.m = NilImage
               /\ op = "ReadAvailableImages" => ret.images = <<>>
    /\ NoExternalCancel =>
          \A i \in 1..Len(ReadLog) : ReadLog[i].err # ErrCancelled

\* C13: a ReadFrame that is blocked when another context calls Cancel fails
\* with Cancelled, and the strategy blocked in it returns Cancelled as it is:
\* ReadAvailableImages returns no images, whatever it had collected, and
\* ContinuousRead calls the handler no more.  A later ReadFrame on the
\* connection is not cancelled and does not hang: every call returns.
C13_Cancel ==
    /\ []C13_Safety
    /\ Running ~> pc = "done"

\* C13 witness: ReadAvailableImages was cancelled after it had collected a
\* page, and the next call on the connection returned an image.
C13_Witness ==
    /\ Len(results) = 1
    /\ results[1].op = "ReadAvailableImages"
    /\ results[1].collected >= 1
    /\ results[1].ret = [images |-> <<>>, err |-> ErrCancelled]
    /\ pc = "done"
    /\ ret.err = NoErr
    /\ NumReads >= 1

TypeOK ==
    /\ op \in {"none", "ReadImage", "ReadAvailableImages", "ContinuousRead"}
    /\ pc \in {"idle", "L115", "L127", "L154", "L162", "L159", "done"}
=============================================================================
